---- MODULE Spec2Model ----
(***************************************************************************)
(* The game-session runtime of the quiz server: the directory `games`,     *)
(* the game objects, the WebSocket connections, the pending timers of the   *)
(* event loop, and one action per handler (REST create, each WebSocket      *)
(* message type, connection close, each timer callback).                    *)
(*                                                                          *)
(* Time is not counted.  A pending timer carries the delay it was started   *)
(* with, and may fire once no timer started before it with a delay at most  *)
(* as long is still pending: the event loop cannot run it earlier.  The     *)
(* seconds elapsed since the question began are an input of each answer.    *)
(***************************************************************************)
EXTENDS Integers, Sequences, FiniteSets, TLC

VARIABLES
    games,    \* the directory: pin -> game object (0 = no entry)
    heap,     \* the game objects ever allocated, by object id
    conns,    \* the WebSocket connections, by connection id
    timers,   \* the pending timers, oldest first
    out       \* the frames sent by the last handler, in order

vars == <<games, heap, conns, timers, out>>

----------------------------------------------------------------------------
(* Bounds of the model *)

NumPins == 2        \* distinct six-digit pins the generator can return
MaxGames == 2       \* game objects created
NumHosts == 1       \* connections that send host_join
NumPlayers == 2     \* connections that send player_join
MaxAcks == 2        \* scored submissions per player and question
MaxTimers == 3      \* pending timers
MaxIndex == 2       \* largest currentQ
NumServerConns == 2 \* connections that open on the server started empty
MaxElapsed == 7
MaxJoined == 3

(* Program constants *)

MAX_PLAYERS == 100
NAME_SLICE == 20
DEFAULT_TIME == 20
REVEAL_DELAY == 1
ADVANCE_DELAY == 5
REAP_DELAY == 600
BASE_POINTS == 500
PARTIAL_POINTS == 300

Pins == 1..NumPins
HostConns == 1..NumHosts
PlayerConns == (NumHosts + 1)..(NumHosts + NumPlayers)
ConnIds == HostConns \cup PlayerConns

----------------------------------------------------------------------------
(* Values carried by messages and questions *)

\* a JSON value used as an answer: a number (arr = FALSE, v = {n}) or an
\* array of numbers (arr = TRUE, v = its elements)
Num(n) == [arr |-> FALSE, v |-> {n}]
Arr(S) == [arr |-> TRUE, v |-> S]

\* the sanitized quizzes a game can be created with
Single(c, n, t) == [answers |-> n, correct |-> Num(c), time |-> t, type |-> "single"]
Multiple(C, n, t) == [answers |-> n, correct |-> Arr(C), time |-> t, type |-> "multiple"]

\* the quiz of the game being played: a multiple-choice question, then a
\* single-choice one, each with the shortest time limit
PlayQuiz == <<Multiple({0, 1}, 3, 5), Single(1, 2, 5)>>

\* the answers sent while playing: an array that is part of the correct set
\* of the first question and not the correct index of the second
PlayAnswers == { Arr({0}) }

\* seconds after the question began at which an answer is handled
PlayElapsed == { 0 }

Letters == <<"a", "b", "c", "d">>

Max(a, b) == IF a >= b THEN a ELSE b
Min(a, b) == IF a <= b THEN a ELSE b

----------------------------------------------------------------------------
(* Name sanitizing: (msg.name || '').trim().slice(0, 20).replace(/[<>]/g, '') *)

RECURSIVE TrimLeft(_)
TrimLeft(s) == IF s # <<>> /\ Head(s) = " " THEN TrimLeft(Tail(s)) ELSE s

RECURSIVE TrimRight(_)
TrimRight(s) ==
    IF s # <<>> /\ s[Len(s)] = " " THEN TrimRight(SubSeq(s, 1, Len(s) - 1)) ELSE s

Trim(s) == TrimRight(TrimLeft(s))

Slice(s, n) == SubSeq(s, 1, Min(Len(s), n))

IsAngle(ch) == ch \in {"<", ">"}

StripAngles(s) ==
    LET Keep(ch) == ~IsAngle(ch) IN SelectSeq(s, Keep)

SanitizeName(raw) == StripAngles(Slice(Trim(raw), NAME_SLICE))

LowerChar(ch) ==
    CASE ch = "A" -> "a"
      [] ch = "B" -> "b"
      [] OTHER    -> ch

ToLowerCase(s) == [i \in 1..Len(s) |-> LowerChar(s[i])]

----------------------------------------------------------------------------
(* Frames sent by the server *)

NoFrame ==
    [to |-> 0, type |-> "none", g |-> 0, index |-> -1, correct |-> FALSE,
     points |-> 0, leaderboard |-> <<>>, isLast |-> FALSE, count |-> 0, total |-> 0,
     message |-> ""]

Frame(type, g) == [NoFrame EXCEPT !.type = type, !.g = g]

\* { type: 'error', message }
Error(g, message) == [Frame("error", g) EXCEPT !.message = message]

\* ws.readyState === WebSocket.OPEN, for a socket reference that may be null
IsOpen(cs, c) == c # 0 /\ cs[c].status = "open"

\* ws.send on one connection
SendTo(c, f) == <<[f EXCEPT !.to = c]>>

\* sendToHost
sendToHost(cs, G, f) == IF IsOpen(cs, G.hostWs) THEN SendTo(G.hostWs, f) ELSE <<>>

\* broadcast: every player whose socket is open, in list order
broadcast(cs, G, f) ==
    LET Open(p) == IsOpen(cs, p.ws)
        live    == SelectSeq(G.players, Open)
    IN [k \in 1..Len(live) |-> [f EXCEPT !.to = live[k].ws]]

----------------------------------------------------------------------------
(* getLeaderboard: a stable sort by descending score, then ranks 1..N *)

\* the highest score among the entries of a non-empty list
MaxScore(ps) ==
    CHOOSE m \in {ps[i].score : i \in 1..Len(ps)} :
        \A i \in 1..Len(ps) : ps[i].score <= m

\* Array.prototype.sort((a, b) => b.score - a.score), a stable sort: the
\* entries with the highest score in their order, then the others sorted
RECURSIVE SortByScore(_)
SortByScore(ps) ==
    IF ps = <<>> THEN <<>>
    ELSE LET Top(p)  == p.score = MaxScore(ps)
             Rest(p) == p.score # MaxScore(ps)
         IN SelectSeq(ps, Top) \o SortByScore(SelectSeq(ps, Rest))

\* a variant that lists the participants that are still connected
getLeaderboardOfConnected(G) ==
    LET Connected(p) == p.ws # 0
        s == SortByScore(SelectSeq(G.players, Connected))
    IN [i \in 1..Len(s) |-> [rank |-> i, name |-> s[i].name, score |-> s[i].score]]

getLeaderboard(G) ==
    LET s == SortByScore(G.players)
    IN [i \in 1..Len(s) |-> [rank |-> i, name |-> s[i].name, score |-> s[i].score]]

----------------------------------------------------------------------------
(* Timers.  game.timer holds the deadline timer, game.autoTimer the        *)
(* 1-second reveal or the 5-second auto-advance; `held` says the field      *)
(* still refers to this timer.  `q` is the question index at scheduling.    *)

Slot(kind) ==
    CASE kind = "deadline" -> "timer"
      [] kind = "reveal"   -> "autoTimer"
      [] kind = "advance"  -> "autoTimer"
      [] OTHER             -> "none"

\* clearTimeout(game.<field>)
clearTimeout(ts, g, field) ==
    LET Keep(t) == ~(t.g = g /\ Slot(t.kind) = field /\ t.held)
    IN SelectSeq(ts, Keep)

\* game.<field> = setTimeout(callback, dur * 1000): the field now refers to
\* the new timer; the timer it referred to stays pending
setTimeout(ts, g, kind, dur, isLast, q) ==
    LET old == [i \in 1..Len(ts) |->
                   IF ts[i].g = g /\ Slot(ts[i].kind) = Slot(kind) /\ Slot(kind) # "none"
                   THEN [ts[i] EXCEPT !.held = FALSE] ELSE ts[i]]
    IN Append(old, [g |-> g, kind |-> kind, dur |-> dur,
                    held |-> Slot(kind) # "none", isLast |-> isLast, q |-> q])

RemoveAt(s, i) == SubSeq(s, 1, i - 1) \o SubSeq(s, i + 1, Len(s))

----------------------------------------------------------------------------
(* Game logic.  A world is the part of the state the game functions        *)
(* read and change: the objects, the timers, the frames sent so far, and   *)
(* the connections.                                                         *)

\* obj[k] = v and obj[k] ?? d, for the objects used as maps
Put(f, k, v) == [x \in DOMAIN f \cup {k} |-> IF x = k THEN v ELSE f[x]]

Get(f, k, d) == IF k \in DOMAIN f THEN f[k] ELSE d

World(h, ts, o, cs) == [heap |-> h, timers |-> ts, out |-> o, conns |-> cs]

timeLimit(q) == IF q.time = 0 THEN DEFAULT_TIME ELSE q.time

endGame(w, g) ==
    LET ts  == clearTimeout(clearTimeout(w.timers, g, "timer"), g, "autoTimer")
        G   == [w.heap[g] EXCEPT !.state = "final", !.board = << >>]
        f   == [Frame("game_over", g) EXCEPT !.leaderboard = getLeaderboard(G)]
    IN World([w.heap EXCEPT ![g] = G],
             setTimeout(ts, g, "reap", REAP_DELAY, FALSE, G.currentQ),
             w.out \o sendToHost(w.conns, G, f) \o broadcast(w.conns, G, f),
             w.conns)

\* a variant that opens the open question once more
nextQuestionAgain(w, g) ==
    LET cq == IF w.heap[g].state = "question" THEN w.heap[g].currentQ
              ELSE w.heap[g].currentQ + 1
        G0 == [w.heap[g] EXCEPT !.currentQ = cq]
    IN IF cq >= Len(G0.questions)
       THEN endGame([w EXCEPT !.heap[g] = G0], g)
       ELSE LET q == G0.questions[cq + 1]
                G == [G0 EXCEPT !.state = "question",
                                !.answers = << >>,
                                !.acks = << >>,
                                !.board = << >>,
                                !.asked = Put(@, cq, Get(@, cq, 0) + 1)]
                f == [Frame("question", g) EXCEPT !.index = cq, !.total = Len(G.questions)]
            IN World([w.heap EXCEPT ![g] = G],
                     setTimeout(w.timers, g, "deadline", timeLimit(q), FALSE, cq),
                     w.out \o sendToHost(w.conns, G, f) \o broadcast(w.conns, G, f),
             w.conns)

nextQuestion(w, g) ==
    LET cq == w.heap[g].currentQ + 1
        G0 == [w.heap[g] EXCEPT !.currentQ = cq]
    IN IF cq >= Len(G0.questions)
       THEN endGame([w EXCEPT !.heap[g] = G0], g)
       ELSE LET q == G0.questions[cq + 1]
                G == [G0 EXCEPT !.state = "question",
                                !.answers = << >>,
                                !.acks = << >>,
                                !.board = << >>,
                                !.asked = Put(@, cq, Get(@, cq, 0) + 1)]
                f == [Frame("question", g) EXCEPT !.index = cq, !.total = Len(G.questions)]
            IN World([w.heap EXCEPT ![g] = G],
                     setTimeout(w.timers, g, "deadline", timeLimit(q), FALSE, cq),
                     w.out \o sendToHost(w.conns, G, f) \o broadcast(w.conns, G, f),
             w.conns)

\* a variant without the test of game.state
revealAnswerInAnyState(w, g) ==
    LET      ts     == clearTimeout(clearTimeout(w.timers, g, "timer"), g, "autoTimer")
             G      == [w.heap[g] EXCEPT
                            !.state = "q_result",
                            !.board = getLeaderboard(w.heap[g]),
                            !.revealed = Put(@, w.heap[g].currentQ,
                                             Get(@, w.heap[g].currentQ, 0) + 1)]
             isLast == G.currentQ + 1 >= Len(G.questions)
             f      == [Frame("question_result", g) EXCEPT
                            !.index = G.currentQ,
                            !.leaderboard = getLeaderboard(G),
                            !.isLast = isLast]
         IN World([w.heap EXCEPT ![g] = G],
                  setTimeout(ts, g, "advance", ADVANCE_DELAY, isLast, G.currentQ),
                  w.out \o sendToHost(w.conns, G, f) \o broadcast(w.conns, G, f),
             w.conns)

revealAnswer(w, g) ==
    IF w.heap[g].state # "question" THEN w
    ELSE LET ts     == clearTimeout(clearTimeout(w.timers, g, "timer"), g, "autoTimer")
             G      == [w.heap[g] EXCEPT
                            !.state = "q_result",
                            !.board = getLeaderboard(w.heap[g]),
                            !.revealed = Put(@, w.heap[g].currentQ,
                                             Get(@, w.heap[g].currentQ, 0) + 1)]
             isLast == G.currentQ + 1 >= Len(G.questions)
             f      == [Frame("question_result", g) EXCEPT
                            !.index = G.currentQ,
                            !.leaderboard = getLeaderboard(G),
                            !.isLast = isLast]
         IN World([w.heap EXCEPT ![g] = G],
                  setTimeout(ts, g, "advance", ADVANCE_DELAY, isLast, G.currentQ),
                  w.out \o sendToHost(w.conns, G, f) \o broadcast(w.conns, G, f),
             w.conns)

\* a variant whose callback tests for the wrong state
autoAdvanceInQuestion(w, g, isLast) ==
    IF w.heap[g].state = "question"
    THEN (IF isLast THEN endGame(w, g) ELSE nextQuestion(w, g))
    ELSE w

\* the callback of the 5-second timer
autoAdvance(w, g, isLast) ==
    IF w.heap[g].state = "q_result"
    THEN (IF isLast THEN endGame(w, g) ELSE nextQuestion(w, g))
    ELSE w

----------------------------------------------------------------------------
(* Scoring, as the answer handler computes it *)

\* Math.round of the non-negative fraction n / d
Round(n, d) == (2 * n + d) \div (2 * d)

\* a variant that drops the fraction instead of rounding
timePointsTruncated(T, e) == (BASE_POINTS * T + BASE_POINTS * Max(0, T - e)) \div T

\* a variant whose bonus grows with the time taken
timePointsRising(T, e) == Round(BASE_POINTS * T + BASE_POINTS * Min(e, T), T)

\* Math.round(500 + 500 * Math.max(0, (timeLimit - elapsed) / timeLimit))
timePoints(T, e) == Round(BASE_POINTS * T + BASE_POINTS * Max(0, T - e), T)

\* msg.answer === q.correct: two numbers that are equal (arrays never are)
StrictEquals(a, b) == ~a.arr /\ ~b.arr /\ a.v = b.v

\* new Set(Array.isArray(msg.answer) ? msg.answer : [])
givenSet(a) == IF a.arr THEN a.v ELSE {}

\* a variant that takes every non-empty selection without a wrong index for
\* the correct one
scoreAnswerOfSubset(q, a, e) ==
    IF q.type = "multiple"
    THEN LET correctSet == q.correct.v
             given      == givenSet(a)
             isCorrect  == given \subseteq correctSet /\ given # {}
         IN IF isCorrect
            THEN [correct |-> TRUE, points |-> timePoints(timeLimit(q), e)]
            ELSE [correct |-> FALSE, points |-> 0]
    ELSE IF StrictEquals(a, q.correct)
         THEN [correct |-> TRUE, points |-> timePoints(timeLimit(q), e)]
         ELSE [correct |-> FALSE, points |-> 0]

\* a variant that takes points away for a wrong single-choice answer
scoreAnswerWithPenalty(q, a, e) ==
    IF q.type = "multiple"
    THEN LET correctSet == q.correct.v
             given      == givenSet(a)
             allCorrect == correctSet \subseteq given
             noWrong    == given \subseteq correctSet
             isCorrect  == allCorrect /\ noWrong /\ given # {}
         IN IF isCorrect
            THEN [correct |-> TRUE, points |-> timePoints(timeLimit(q), e)]
            ELSE IF noWrong /\ given # {}
                 THEN [correct |-> FALSE,
                       points  |-> Round(Cardinality(given \cap correctSet) * PARTIAL_POINTS,
                                         Cardinality(correctSet))]
                 ELSE [correct |-> FALSE, points |-> 0]
    ELSE IF StrictEquals(a, q.correct)
         THEN [correct |-> TRUE, points |-> timePoints(timeLimit(q), e)]
         ELSE [correct |-> FALSE, points |-> 0 - PARTIAL_POINTS]

scoreAnswer(q, a, e) ==
    IF q.type = "multiple"
    THEN LET correctSet == q.correct.v
             given      == givenSet(a)
             allCorrect == correctSet \subseteq given
             noWrong    == given \subseteq correctSet
             isCorrect  == allCorrect /\ noWrong /\ given # {}
         IN IF isCorrect
            THEN [correct |-> TRUE, points |-> timePoints(timeLimit(q), e)]
            ELSE IF noWrong /\ given # {}
                 THEN [correct |-> FALSE,
                       points  |-> Round(Cardinality(given \cap correctSet) * PARTIAL_POINTS,
                                         Cardinality(correctSet))]
                 ELSE [correct |-> FALSE, points |-> 0]
    ELSE IF StrictEquals(a, q.correct)
         THEN [correct |-> TRUE, points |-> timePoints(timeLimit(q), e)]
         ELSE [correct |-> FALSE, points |-> 0]

----------------------------------------------------------------------------
(* Reading a game *)

\* games[pin] for the pin field of a message (0: the message has none)
Lookup(pin) == IF pin \in Pins THEN games[pin] ELSE 0

\* /^\d{6}$/.test(pin)
PinTest(pin) == pin \in Pins

\* if (pin && !/^\d{6}$/.test(pin)) return
Dropped(pin) == pin # 0 /\ ~PinTest(pin)

MsgPins == Pins \cup {0, -1}

\* game.players.find(p => p.id === id): its position, 0 when there is none
FindPlayer(G, id) ==
    IF \E i \in 1..Len(G.players) : G.players[i].id = id
    THEN CHOOSE i \in 1..Len(G.players) : G.players[i].id = id
    ELSE 0

\* game.players.filter(p => p.ws && p.ws.readyState === WebSocket.OPEN)
activePlayers(cs, G) == {i \in 1..Len(G.players) : IsOpen(cs, G.players[i].ws)}

\* a variant that counts the answers that are not submitted too
submittedCountOfAll(G) == Cardinality(DOMAIN G.answers)

\* Object.values(game.answers).filter(a => a.submitted).length
submittedCount(G) == Cardinality({id \in DOMAIN G.answers : G.answers[id].submitted})

HasSubmitted(G, id) == id \in DOMAIN G.answers /\ G.answers[id].submitted

NoId == <<0, 0>>

\* a variant that starts the index at the first question instead of before it
NewGameAtZero(pin, quiz) ==
    [pin |-> pin, hostWs |-> 0, players |-> <<>>, questions |-> quiz,
     currentQ |-> 0, state |-> "lobby", answers |-> << >>, acks |-> << >>,
     asked |-> << >>, revealed |-> << >>, board |-> << >>]

NewGame(pin, quiz) ==
    [pin |-> pin, hostWs |-> 0, players |-> <<>>, questions |-> quiz,
     currentQ |-> -1, state |-> "lobby", answers |-> << >>, acks |-> << >>,
     asked |-> << >>, revealed |-> << >>, board |-> << >>]

NewConn == [status |-> "none", role |-> "none", gamePin |-> 0, playerId |-> NoId]

\* the bounds that keep the state space finite
Within(w) ==
    /\ Len(w.timers) <= MaxTimers
    /\ \A g \in 1..Len(w.heap) : w.heap[g].currentQ <= MaxIndex

Here == World(heap, timers, <<>>, conns)

Apply(w) ==
    /\ Within(w)
    /\ heap' = w.heap
    /\ timers' = w.timers
    /\ out' = w.out
    /\ conns' = w.conns
    /\ UNCHANGED games

Ignore == Apply(Here)

----------------------------------------------------------------------------
(* The handlers *)

\* app.post('/api/create'): the pin is whatever generatePin returns
Create(pin, quiz) ==
    /\ Len(heap) < MaxGames
    /\ heap' = Append(heap, NewGame(pin, quiz))
    /\ games' = [games EXCEPT ![pin] = Len(heap) + 1]
    /\ out' = <<>>
    /\ UNCHANGED <<conns, timers>>

\* wss.on('connection')
Connect(c) ==
    /\ conns[c].status = "none"
    /\ conns' = [conns EXCEPT ![c].status = "open"]
    /\ out' = <<>>
    /\ UNCHANGED <<games, heap, timers>>

\* message { type: 'host_join', pin }
HostJoin(c, pin) ==
    /\ conns[c].status = "open"
    /\ conns[c].role = "none"
    /\ LET g == Lookup(pin)
       IN IF Dropped(pin) THEN Ignore
          ELSE IF g = 0
          THEN Apply([Here EXCEPT !.out = SendTo(c, Error(0, "Partie introuvable"))])
          ELSE Apply([Here EXCEPT
                        !.heap[g].hostWs = c,
                        !.conns[c].gamePin = pin,
                        !.conns[c].role = "host",
                        !.out = SendTo(c, Frame("host_joined", g))])

\* a variant that compares the names as they are spelled
PlayerJoinExactName(c, pin, raw) ==
    /\ conns[c].status = "open"
    /\ LET g    == Lookup(pin)
           name == SanitizeName(raw)
           err(message) == Apply([Here EXCEPT !.out = SendTo(c, Error(g, message))])
       IN IF Dropped(pin) THEN Ignore
          ELSE IF g = 0 THEN err("Code invalide")
          ELSE IF heap[g].state # "lobby" THEN err("Partie deja commencee")
          ELSE IF Len(heap[g].players) >= MAX_PLAYERS THEN err("Partie pleine")
          ELSE IF name = <<>> THEN err("Nom invalide")
          ELSE IF \E i \in 1..Len(heap[g].players) :
                     heap[g].players[i].name = name
          THEN err("Nom deja pris")
          ELSE LET playerId == <<g, Len(heap[g].players) + 1>>
                      G == [heap[g] EXCEPT !.players =
                               Append(@, [id |-> playerId, name |-> name,
                                          score |-> 0, ws |-> c])]
               IN Apply([Here EXCEPT
                        !.heap[g] = G,
                        !.conns[c].playerId = playerId,
                        !.conns[c].gamePin = pin,
                        !.conns[c].role = "player",
                        !.out = SendTo(c, Frame("joined", g))
                                \o sendToHost(conns, G,
                                     [Frame("player_joined", g) EXCEPT
                                         !.count = Len(G.players)])])

\* message { type: 'player_join', pin, name }, from any open connection
PlayerJoinMessage(c, pin, raw) ==
    /\ conns[c].status = "open"
    /\ LET g    == Lookup(pin)
           name == SanitizeName(raw)
           err(message) == Apply([Here EXCEPT !.out = SendTo(c, Error(g, message))])
       IN IF Dropped(pin) THEN Ignore
          ELSE IF g = 0 THEN err("Code invalide")
          ELSE IF heap[g].state # "lobby" THEN err("Partie deja commencee")
          ELSE IF Len(heap[g].players) >= MAX_PLAYERS THEN err("Partie pleine")
          ELSE IF name = <<>> THEN err("Nom invalide")
          ELSE IF \E i \in 1..Len(heap[g].players) :
                     ToLowerCase(heap[g].players[i].name) = ToLowerCase(name)
          THEN err("Nom deja pris")
          ELSE LET playerId == <<g, Len(heap[g].players) + 1>>
                      G == [heap[g] EXCEPT !.players =
                               Append(@, [id |-> playerId, name |-> name,
                                          score |-> 0, ws |-> c])]
               IN Apply([Here EXCEPT
                        !.heap[g] = G,
                        !.conns[c].playerId = playerId,
                        !.conns[c].gamePin = pin,
                        !.conns[c].role = "player",
                        !.out = SendTo(c, Frame("joined", g))
                                \o sendToHost(conns, G,
                                     [Frame("player_joined", g) EXCEPT
                                         !.count = Len(G.players)])])

\* the player_join message of a connection that has not joined anything yet
PlayerJoin(c, pin, raw) ==
    /\ conns[c].role = "none"
    /\ PlayerJoinMessage(c, pin, raw)

\* a variant that does not look at the players
StartGameWithoutPlayers(c, pin) ==
    /\ conns[c].status = "open"
    /\ LET g == Lookup(pin)
       IN IF Dropped(pin) \/ g = 0 \/ conns[c].role # "host" THEN Ignore
          ELSE Apply(nextQuestion(Here, g))

\* message { type: 'start_game', pin }
StartGame(c, pin) ==
    /\ conns[c].status = "open"
    /\ LET g == Lookup(pin)
       IN IF Dropped(pin) \/ g = 0 \/ conns[c].role # "host" THEN Ignore
          ELSE IF Len(heap[g].players) = 0
          THEN Apply([Here EXCEPT !.out = sendToHost(conns, heap[g], Error(g, "Aucun joueur"))])
          ELSE Apply(nextQuestion(Here, g))

\* a variant that does not test the state of the game
NextQuestionInAnyState(c, pin) ==
    /\ conns[c].status = "open"
    /\ LET g == Lookup(pin)
       IN IF Dropped(pin) \/ g = 0 \/ conns[c].role # "host" THEN Ignore
          ELSE Apply(nextQuestion(Here, g))

\* message { type: 'next_question', pin }
NextQuestion(c, pin) ==
    /\ conns[c].status = "open"
    /\ LET g == Lookup(pin)
       IN IF Dropped(pin) \/ g = 0 \/ conns[c].role # "host" THEN Ignore
          ELSE IF heap[g].state = "q_result" THEN Apply(nextQuestion(Here, g))
          ELSE Ignore

\* message { type: 'end_game', pin }
EndGame(c, pin) ==
    /\ conns[c].status = "open"
    /\ LET g == Lookup(pin)
       IN IF Dropped(pin) \/ g = 0 \/ conns[c].role # "host" THEN Ignore
          ELSE Apply(endGame(Here, g))

\* a variant that sends the results at once, ahead of the acknowledgement,
\* when the last live player has answered
AnswerAfterReveal(c, pin, a, final, e) ==
    /\ conns[c].status = "open"
    /\ LET g == Lookup(pin)
       IN IF Dropped(pin) \/ g = 0 \/ conns[c].role # "player" THEN Ignore
          ELSE LET G  == heap[g]
                   id == conns[c].playerId
                   i  == FindPlayer(G, id)
               IN IF G.state # "question" \/ i = 0 THEN Ignore
                  ELSE LET q == G.questions[G.currentQ + 1]
                       IN IF q.type = "multiple" /\ ~final
                          THEN Apply([Here EXCEPT !.heap[g].answers =
                                        Put(@, id, [answer |-> a, submitted |-> FALSE,
                                                    correct |-> FALSE, points |-> 0,
                                                    elapsed |-> 0])])
                          ELSE IF HasSubmitted(G, id) THEN Ignore
                          ELSE /\ Get(G.acks, id, 0) < MaxAcks
                               /\ LET sc == scoreAnswer(q, a, e)
                                      G1 == [G EXCEPT
                                               !.players[i].score = @ + sc.points,
                                               !.answers = Put(@, id,
                                                   [answer |-> a, submitted |-> TRUE,
                                                    correct |-> sc.correct,
                                                    points |-> sc.points,
                                                    elapsed |-> e]),
                                               !.acks = Put(@, id, Get(@, id, 0) + 1)]
                                      active == activePlayers(conns, G1)
                                      count  == submittedCount(G1)
                                      o == SendTo(c, [Frame("answer_received", g) EXCEPT
                                                        !.index = G.currentQ,
                                                        !.correct = sc.correct,
                                                        !.points = sc.points])
                                           \o sendToHost(conns, G1,
                                                [Frame("answer_count", g) EXCEPT
                                                    !.count = count,
                                                    !.total = Cardinality(active)])
                                      ts == IF count >= Cardinality(active)
                                            THEN setTimeout(clearTimeout(timers, g, "timer"),
                                                            g, "reveal", REVEAL_DELAY,
                                                            FALSE, G.currentQ)
                                            ELSE timers
                                  IN IF count >= Cardinality(active)
                                     THEN LET w == revealAnswer(
                                                     World([heap EXCEPT ![g] = G1],
                                                           timers, <<>>, conns), g)
                                          IN Apply([w EXCEPT !.out = @ \o o])
                                     ELSE Apply(World([heap EXCEPT ![g] = G1],
                                                      timers, o, conns))

\* message { type: 'answer', pin, answer, final }, handled e seconds after
\* game.questionStart; a submitted record keeps that `elapsed` for the
\* properties
\* a variant that also handles answers while the result is displayed
AnswerInResult(c, pin, a, final, e) ==
    /\ conns[c].status = "open"
    /\ LET g == Lookup(pin)
       IN IF Dropped(pin) \/ g = 0 \/ conns[c].role # "player" THEN Ignore
          ELSE LET G  == heap[g]
                   id == conns[c].playerId
                   i  == FindPlayer(G, id)
               IN IF G.state \notin {"question", "q_result"} \/ i = 0 THEN Ignore
                  ELSE LET q == G.questions[G.currentQ + 1]
                       IN IF q.type = "multiple" /\ ~final
                          THEN Apply([Here EXCEPT !.heap[g].answers =
                                        Put(@, id, [answer |-> a, submitted |-> FALSE,
                                                    correct |-> FALSE, points |-> 0,
                                                    elapsed |-> 0])])
                          ELSE IF HasSubmitted(G, id) THEN Ignore
                          ELSE /\ Get(G.acks, id, 0) < MaxAcks
                               /\ LET sc == scoreAnswer(q, a, e)
                                      G1 == [G EXCEPT
                                               !.players[i].score = @ + sc.points,
                                               !.answers = Put(@, id,
                                                   [answer |-> a, submitted |-> TRUE,
                                                    correct |-> sc.correct,
                                                    points |-> sc.points,
                                                    elapsed |-> e]),
                                               !.acks = Put(@, id, Get(@, id, 0) + 1)]
                                      active == activePlayers(conns, G1)
                                      count  == submittedCount(G1)
                                      o == SendTo(c, [Frame("answer_received", g) EXCEPT
                                                        !.index = G.currentQ,
                                                        !.correct = sc.correct,
                                                        !.points = sc.points])
                                           \o sendToHost(conns, G1,
                                                [Frame("answer_count", g) EXCEPT
                                                    !.count = count,
                                                    !.total = Cardinality(active)])
                                      ts == IF count >= Cardinality(active)
                                            THEN setTimeout(clearTimeout(timers, g, "timer"),
                                                            g, "reveal", REVEAL_DELAY,
                                                            FALSE, G.currentQ)
                                            ELSE timers
                                  IN Apply(World([heap EXCEPT ![g] = G1], ts, o, conns))

Answer(c, pin, a, final, e) ==
    /\ conns[c].status = "open"
    /\ LET g == Lookup(pin)
       IN IF Dropped(pin) \/ g = 0 \/ conns[c].role # "player" THEN Ignore
          ELSE LET G  == heap[g]
                   id == conns[c].playerId
                   i  == FindPlayer(G, id)
               IN IF G.state # "question" \/ i = 0 THEN Ignore
                  ELSE LET q == G.questions[G.currentQ + 1]
                       IN IF q.type = "multiple" /\ ~final
                          THEN Apply([Here EXCEPT !.heap[g].answers =
                                        Put(@, id, [answer |-> a, submitted |-> FALSE,
                                                    correct |-> FALSE, points |-> 0,
                                                    elapsed |-> 0])])
                          ELSE IF HasSubmitted(G, id) THEN Ignore
                          ELSE /\ Get(G.acks, id, 0) < MaxAcks
                               /\ LET sc == scoreAnswer(q, a, e)
                                      G1 == [G EXCEPT
                                               !.players[i].score = @ + sc.points,
                                               !.answers = Put(@, id,
                                                   [answer |-> a, submitted |-> TRUE,
                                                    correct |-> sc.correct,
                                                    points |-> sc.points,
                                                    elapsed |-> e]),
                                               !.acks = Put(@, id, Get(@, id, 0) + 1)]
                                      active == activePlayers(conns, G1)
                                      count  == submittedCount(G1)
                                      o == SendTo(c, [Frame("answer_received", g) EXCEPT
                                                        !.index = G.currentQ,
                                                        !.correct = sc.correct,
                                                        !.points = sc.points])
                                           \o sendToHost(conns, G1,
                                                [Frame("answer_count", g) EXCEPT
                                                    !.count = count,
                                                    !.total = Cardinality(active)])
                                      ts == IF count >= Cardinality(active)
                                            THEN setTimeout(clearTimeout(timers, g, "timer"),
                                                            g, "reveal", REVEAL_DELAY,
                                                            FALSE, G.currentQ)
                                            ELSE timers
                                  IN Apply(World([heap EXCEPT ![g] = G1], ts, o, conns))

\* a variant that takes the participant out of the list
CloseRemovingPlayer(c) ==
    /\ conns[c].status = "open"
    /\ LET cs == [conns EXCEPT ![c].status = "closed"]
           w  == World(heap, timers, <<>>, cs)
           g  == Lookup(conns[c].gamePin)
       IN IF conns[c].gamePin = 0 \/ g = 0 THEN Apply(w)
          ELSE IF conns[c].role = "player"
          THEN LET i  == FindPlayer(heap[g], conns[c].playerId)
                   G  == IF i = 0 THEN heap[g]
                         ELSE [heap[g] EXCEPT !.players = RemoveAt(@, i)]
                   active == activePlayers(cs, G)
                   o  == sendToHost(cs, G, [Frame("player_left", g) EXCEPT
                                               !.count = Cardinality(active)])
                   ts == IF /\ G.state = "question"
                            /\ Cardinality(active) > 0
                            /\ submittedCount(G) >= Cardinality(active)
                         THEN setTimeout(clearTimeout(timers, g, "timer"),
                                         g, "reveal", REVEAL_DELAY, FALSE, G.currentQ)
                         ELSE timers
               IN Apply(World([heap EXCEPT ![g] = G], ts, o, cs))
          ELSE Apply([w EXCEPT !.out = broadcast(cs, heap[g], Frame("host_left", g))])


\* ws.on('close')
Close(c) ==
    /\ conns[c].status = "open"
    /\ LET cs == [conns EXCEPT ![c].status = "closed"]
           w  == World(heap, timers, <<>>, cs)
           g  == Lookup(conns[c].gamePin)
       IN IF conns[c].gamePin = 0 \/ g = 0 THEN Apply(w)
          ELSE IF conns[c].role = "player"
          THEN LET i  == FindPlayer(heap[g], conns[c].playerId)
                   G  == IF i = 0 THEN heap[g] ELSE [heap[g] EXCEPT !.players[i].ws = 0]
                   active == activePlayers(cs, G)
                   o  == sendToHost(cs, G, [Frame("player_left", g) EXCEPT
                                               !.count = Cardinality(active)])
                   ts == IF /\ G.state = "question"
                            /\ Cardinality(active) > 0
                            /\ submittedCount(G) >= Cardinality(active)
                         THEN setTimeout(clearTimeout(timers, g, "timer"),
                                         g, "reveal", REVEAL_DELAY, FALSE, G.currentQ)
                         ELSE timers
               IN Apply(World([heap EXCEPT ![g] = G], ts, o, cs))
          ELSE Apply([w EXCEPT !.out = broadcast(cs, heap[g], Frame("host_left", g))])

----------------------------------------------------------------------------
(* Timers firing *)

\* a timer started earlier with a delay at most as long is due earlier (and
\* runs first when both are due at once)
Due(i) ==
    /\ i \in 1..Len(timers)
    /\ \A j \in 1..(i - 1) : timers[j].dur > timers[i].dur

Fired(i) == World(heap, RemoveAt(timers, i), <<>>, conns)

\* game.timer = setTimeout(() => revealAnswer(game), timeLimit * 1000)
FireDeadline(i) ==
    /\ Due(i)
    /\ timers[i].kind = "deadline"
    /\ Apply(revealAnswer(Fired(i), timers[i].g))

\* game.autoTimer = setTimeout(() => revealAnswer(game), 1000)
FireReveal(i) ==
    /\ Due(i)
    /\ timers[i].kind = "reveal"
    /\ Apply(revealAnswer(Fired(i), timers[i].g))

\* game.autoTimer = setTimeout(() => { if (state === 'q_result') ... }, 5000)
FireAdvance(i) ==
    /\ Due(i)
    /\ timers[i].kind = "advance"
    /\ Apply(autoAdvance(Fired(i), timers[i].g, timers[i].isLast))

\* setTimeout(() => delete games[game.pin], 10 * 60 * 1000)
FireReap(i) ==
    /\ Due(i)
    /\ timers[i].kind = "reap"
    /\ games' = [games EXCEPT ![heap[timers[i].g].pin] = 0]
    /\ timers' = RemoveAt(timers, i)
    /\ out' = <<>>
    /\ UNCHANGED <<heap, conns>>

----------------------------------------------------------------------------
(* A game being played.  It starts in the lobby of a game created under    *)
(* pin 1, with its host (connection 1) and its players (the connections     *)
(* after it) joined; every connection may then send any message with any    *)
(* pin at any time, close, and every pending timer may fire.                *)

JoinedConn(role, id) == [status |-> "open", role |-> role, gamePin |-> 1, playerId |-> id]

Init ==
    /\ games = [p \in Pins |-> IF p = 1 THEN 1 ELSE 0]
    /\ heap = << [NewGame(1, PlayQuiz) EXCEPT
                    !.hostWs = 1,
                    !.players = [i \in 1..NumPlayers |->
                                    [id |-> <<1, i>>, name |-> <<Letters[i]>>,
                                     score |-> 0, ws |-> NumHosts + i]]] >>
    /\ conns = [c \in ConnIds |->
                    IF c \in HostConns THEN JoinedConn("host", NoId)
                    ELSE JoinedConn("player", <<1, c - NumHosts>>)]
    /\ timers = <<>>
    /\ out = <<>>

Next ==
    \/ \E c \in ConnIds, pin \in MsgPins : StartGame(c, pin)
    \/ \E c \in ConnIds, pin \in MsgPins : NextQuestion(c, pin)
    \/ \E c \in ConnIds, pin \in MsgPins : EndGame(c, pin)
    \/ \E c \in ConnIds, pin \in MsgPins, a \in PlayAnswers, final \in BOOLEAN,
          e \in PlayElapsed : Answer(c, pin, a, final, e)
    \/ \E c \in ConnIds : Close(c)
    \/ \E i \in 1..MaxTimers : FireDeadline(i)
    \/ \E i \in 1..MaxTimers : FireReveal(i)
    \/ \E i \in 1..MaxTimers : FireAdvance(i)
    \/ \E i \in 1..MaxTimers : FireReap(i)

Spec == Init /\ [][Next]_vars

\* a host that sends start_game from the lobby only
StartGameInLobby(c, pin) ==
    /\ Lookup(pin) # 0
    /\ heap[Lookup(pin)].state = "lobby"
    /\ StartGame(c, pin)

NextLobbyStart ==
    \/ \E c \in ConnIds, pin \in MsgPins : StartGameInLobby(c, pin)
    \/ \E c \in ConnIds, pin \in MsgPins : NextQuestion(c, pin)
    \/ \E c \in ConnIds, pin \in MsgPins : EndGame(c, pin)
    \/ \E c \in ConnIds, pin \in MsgPins, a \in PlayAnswers, final \in BOOLEAN,
          e \in PlayElapsed : Answer(c, pin, a, final, e)
    \/ \E c \in ConnIds : Close(c)
    \/ \E i \in 1..MaxTimers : FireDeadline(i)
    \/ \E i \in 1..MaxTimers : FireReveal(i)
    \/ \E i \in 1..MaxTimers : FireAdvance(i)
    \/ \E i \in 1..MaxTimers : FireReap(i)

SpecLobbyStart == Init /\ [][NextLobbyStart]_vars

----------------------------------------------------------------------------
(* A game left to its timers: after start_game from the lobby the host      *)
(* sends nothing more; players may submit answers, every connection may     *)
(* close, and the event loop runs the callback of every timer that is due.  *)

TimerStep ==
    \E i \in 1..MaxTimers :
        FireDeadline(i) \/ FireReveal(i) \/ FireAdvance(i) \/ FireReap(i)

NextTimers ==
    \/ \E c \in HostConns, pin \in Pins : StartGameInLobby(c, pin)
    \/ \E c \in PlayerConns, pin \in Pins, a \in PlayAnswers, e \in PlayElapsed :
          Answer(c, pin, a, TRUE, e)
    \/ \E c \in ConnIds : Close(c)
    \/ \E i \in 1..MaxTimers : FireDeadline(i)
    \/ \E i \in 1..MaxTimers : FireReveal(i)
    \/ \E i \in 1..MaxTimers : FireAdvance(i)
    \/ \E i \in 1..MaxTimers : FireReap(i)

SpecTimers == Init /\ [][NextTimers]_vars /\ WF_vars(TimerStep)

----------------------------------------------------------------------------
(* One question being scored.  A game of one question, single-choice or    *)
(* multiple-choice, waits in its lobby with its host and one player; the    *)
(* host starts it, and the player sends any of the answers below, final or  *)
(* not, any number of whole seconds after the question began, until the     *)
(* results of the question are sent.                                        *)

\* the time limit, between the 5 and the 120 seconds a quiz is clamped to:
\* even, and with thirds of 500 to round up and down
ScoreTimes == {6}

\* the `correct` arrays of the multiple-choice questions
ScoreCorrectSets == { {}, {0, 1, 2}, 0..6 }

ScoreQuizzes ==
    { <<Single(1, 8, t)>> : t \in ScoreTimes }
    \cup { <<Multiple(C, 8, t)>> : C \in ScoreCorrectSets, t \in ScoreTimes }

\* the `answer` fields sent: indices, and arrays of indices
ScoreAnswers ==
    { Num(0), Num(1), Arr({}), Arr({0}), Arr({0, 1}), Arr({0, 1, 2}),
      Arr({0, 7}), Arr(0..6) }

ScoreElapsed == 0..MaxElapsed

InitScore ==
    /\ games = [p \in Pins |-> IF p = 1 THEN 1 ELSE 0]
    /\ \E quiz \in ScoreQuizzes :
          heap = << [NewGame(1, quiz) EXCEPT
                        !.hostWs = 1,
                        !.players = << [id |-> <<1, 1>>, name |-> <<"a">>,
                                        score |-> 0, ws |-> NumHosts + 1] >>] >>
    /\ conns = [c \in ConnIds |->
                    IF c \in HostConns THEN JoinedConn("host", NoId)
                    ELSE IF c = NumHosts + 1 THEN JoinedConn("player", <<1, 1>>)
                    ELSE NewConn]
    /\ timers = <<>>
    /\ out = <<>>

NextScore ==
    \/ \E c \in HostConns, pin \in Pins : StartGameInLobby(c, pin)
    \/ \E c \in PlayerConns, pin \in Pins, a \in ScoreAnswers, final \in BOOLEAN,
          e \in ScoreElapsed : Answer(c, pin, a, final, e)
    \/ \E i \in 1..MaxTimers : FireDeadline(i)
    \/ \E i \in 1..MaxTimers : FireReveal(i)

SpecScore == InitScore /\ [][NextScore]_vars

----------------------------------------------------------------------------
(* Two players answering one single-choice question.  The game waits in    *)
(* its lobby with its host and its players; the host starts it, and each    *)
(* player sends the correct index or another one, any number of whole       *)
(* seconds after the question began.                                        *)

PairQuiz == <<Single(1, 2, 6)>>

PairAnswers == { Num(0), Num(1) }

InitPair ==
    /\ games = [p \in Pins |-> IF p = 1 THEN 1 ELSE 0]
    /\ heap = << [NewGame(1, PairQuiz) EXCEPT
                    !.hostWs = 1,
                    !.players = [i \in 1..NumPlayers |->
                                    [id |-> <<1, i>>, name |-> <<Letters[i]>>,
                                     score |-> 0, ws |-> NumHosts + i]]] >>
    /\ conns = [c \in ConnIds |->
                    IF c \in HostConns THEN JoinedConn("host", NoId)
                    ELSE JoinedConn("player", <<1, c - NumHosts>>)]
    /\ timers = <<>>
    /\ out = <<>>

NextPair ==
    \/ \E c \in HostConns, pin \in Pins : StartGameInLobby(c, pin)
    \/ \E c \in PlayerConns, pin \in Pins, a \in PairAnswers, e \in ScoreElapsed :
          Answer(c, pin, a, TRUE, e)
    \/ \E i \in 1..MaxTimers : FireDeadline(i)
    \/ \E i \in 1..MaxTimers : FireReveal(i)

SpecPair == InitPair /\ [][NextPair]_vars

----------------------------------------------------------------------------
(* A lobby filling up.  A game of one question has its host; the other     *)
(* connections are open and send player_join with any of the names below,   *)
(* any number of times, before and after the host starts the game; players  *)
(* answer, connections close and timers fire.                               *)

\* names as sent: two spellings of one name, one to trim, one with a
\* character that is stripped, and one that is empty once stripped
LobbyNames == { <<"a">>, <<" ", "A">>, <<"b">>, <<"B", "<">>, <<"<">> }

LobbyQuiz == <<Single(1, 2, 5)>>

LobbyAnswers == { Num(1) }

InitLobby ==
    /\ games = [p \in Pins |-> IF p = 1 THEN 1 ELSE 0]
    /\ heap = << [NewGame(1, LobbyQuiz) EXCEPT !.hostWs = 1] >>
    /\ conns = [c \in ConnIds |->
                    IF c \in HostConns THEN JoinedConn("host", NoId)
                    ELSE [NewConn EXCEPT !.status = "open"]]
    /\ timers = <<>>
    /\ out = <<>>

\* a player_join message while no game has MaxJoined participants
JoinLobby(c, pin, raw) ==
    /\ \A g \in 1..Len(heap) : Len(heap[g].players) < MaxJoined
    /\ PlayerJoinMessage(c, pin, raw)

NextLobby ==
    \/ \E c \in PlayerConns, pin \in Pins, raw \in LobbyNames : JoinLobby(c, pin, raw)
    \/ \E c \in HostConns, pin \in Pins : StartGameInLobby(c, pin)
    \/ \E c \in PlayerConns, pin \in Pins, a \in LobbyAnswers, e \in PlayElapsed :
          Answer(c, pin, a, TRUE, e)
    \/ \E c \in ConnIds : Close(c)
    \/ \E i \in 1..MaxTimers : FireDeadline(i)
    \/ \E i \in 1..MaxTimers : FireReveal(i)
    \/ \E i \in 1..MaxTimers : FireAdvance(i)
    \/ \E i \in 1..MaxTimers : FireReap(i)

SpecLobby == InitLobby /\ [][NextLobby]_vars

----------------------------------------------------------------------------
(* A lobby that is almost full.  MAX_PLAYERS - 2 participants have joined   *)
(* the game of one question and have disconnected; the connections that     *)
(* are open send player_join any number of times, before and after the      *)
(* host starts the game; players answer, connections close, timers fire.    *)

\* the name of the k-th of the participants that have left: four letters
NthName(k) ==
    << Letters[((k \div 64) % 4) + 1], Letters[((k \div 16) % 4) + 1],
       Letters[((k \div 4) % 4) + 1], Letters[(k % 4) + 1] >>

InitFull ==
    /\ games = [p \in Pins |-> IF p = 1 THEN 1 ELSE 0]
    /\ heap = << [NewGame(1, LobbyQuiz) EXCEPT
                    !.hostWs = 1,
                    !.players = [k \in 1..(MAX_PLAYERS - 2) |->
                                    [id |-> <<1, k>>, name |-> NthName(k),
                                     score |-> 0, ws |-> 0]]] >>
    /\ conns = [c \in ConnIds |->
                    IF c \in HostConns THEN JoinedConn("host", NoId)
                    ELSE [NewConn EXCEPT !.status = "open"]]
    /\ timers = <<>>
    /\ out = <<>>

FullNames == { <<"a">>, <<"b">> }

NextFull ==
    \/ \E c \in PlayerConns, pin \in Pins, raw \in FullNames :
          PlayerJoinMessage(c, pin, raw)
    \/ \E c \in HostConns, pin \in Pins : StartGameInLobby(c, pin)
    \/ \E c \in PlayerConns, pin \in Pins, a \in LobbyAnswers, e \in PlayElapsed :
          Answer(c, pin, a, TRUE, e)
    \/ \E c \in ConnIds : Close(c)
    \/ \E i \in 1..MaxTimers : FireDeadline(i)
    \/ \E i \in 1..MaxTimers : FireReveal(i)
    \/ \E i \in 1..MaxTimers : FireAdvance(i)
    \/ \E i \in 1..MaxTimers : FireReap(i)

SpecFull == InitFull /\ [][NextFull]_vars

----------------------------------------------------------------------------
(* The server from its start: no game, no connection.  Games are created   *)
(* under whatever pin the generator returns, connections open, join a game   *)
(* as host or as player, and then send any message with any pin.             *)

ServerConns == 1..NumServerConns

ServerQuizzes == { <<Single(1, 2, 5)>> }

ServerNames == { <<"a">>, <<" ", "A">> }

InitServer ==
    /\ games = [p \in Pins |-> 0]
    /\ heap = <<>>
    /\ conns = [c \in ConnIds |-> NewConn]
    /\ timers = <<>>
    /\ out = <<>>

NextServer ==
    \/ \E pin \in Pins, quiz \in ServerQuizzes : Create(pin, quiz)
    \/ \E c \in ServerConns : Connect(c)
    \/ \E c \in HostConns, pin \in MsgPins : HostJoin(c, pin)
    \/ \E c \in PlayerConns, pin \in MsgPins, raw \in ServerNames : PlayerJoin(c, pin, raw)
    \/ \E c \in ConnIds, pin \in MsgPins : StartGame(c, pin)
    \/ \E c \in ConnIds, pin \in MsgPins : NextQuestion(c, pin)
    \/ \E c \in ConnIds, pin \in MsgPins : EndGame(c, pin)
    \/ \E c \in ConnIds, pin \in MsgPins, a \in PlayAnswers, final \in BOOLEAN,
          e \in PlayElapsed : Answer(c, pin, a, final, e)
    \/ \E c \in ConnIds : Close(c)
    \/ \E i \in 1..MaxTimers : FireDeadline(i)
    \/ \E i \in 1..MaxTimers : FireReveal(i)
    \/ \E i \in 1..MaxTimers : FireAdvance(i)
    \/ \E i \in 1..MaxTimers : FireReap(i)

SpecServer == InitServer /\ [][NextServer]_vars

----------------------------------------------------------------------------
(* Reading the state, for the properties below *)

GameIds == 1..Len(heap)

NumTimers(ts, g, kinds) ==
    Cardinality({i \in 1..Len(ts) : ts[i].g = g /\ ts[i].kind \in kinds})

\* the field game.timer / game.autoTimer refers to a timer that is pending
Scheduled(g, field) ==
    \E i \in 1..Len(timers) :
        timers[i].g = g /\ Slot(timers[i].kind) = field /\ timers[i].held

AllLiveSubmitted(cs, G) ==
    \A i \in activePlayers(cs, G) : HasSubmitted(G, G.players[i].id)

FramesOf(g, types) ==
    {k \in 1..Len(out) : out[k].g = g /\ out[k].type \in types}

----------------------------------------------------------------------------
(* C1: once a participant's answer record for the current question is       *)
(* submitted, no later `answer` message of that participant changes the      *)
(* record (selection, submitted flag, correctness, points).                  *)
C1_SubmittedRecordImmutable ==
    [][\A c \in ConnIds, pin \in MsgPins, a \in PlayAnswers, final \in BOOLEAN,
          e \in PlayElapsed :
          LET g  == Lookup(pin)
              id == conns[c].playerId
          IN (/\ Answer(c, pin, a, final, e)
              /\ g # 0
              /\ conns[c].role = "player"
              /\ HasSubmitted(heap[g], id))
             => /\ id \in DOMAIN heap'[g].answers
                /\ heap'[g].answers[id] = heap[g].answers[id]]_vars

(* C2: within one question, a participant is scored at most once: at most  *)
(* one answer_received is sent to them and their score is raised at most     *)
(* once, whatever `answer` messages they send.                               *)
C2_ScoredAtMostOnce ==
    \A g \in GameIds : \A id \in DOMAIN heap[g].acks : heap[g].acks[id] <= 1

(* C3: in state question the 1-second reveal timer is started (by an        *)
(* answer or by a player's close) only when every participant with a live    *)
(* connection has submitted, and the 1-second reveal never cuts off a live   *)
(* participant who has not submitted.                                        *)
C3_RevealOnlyWhenAllLiveSubmitted ==
    [][\A g \in GameIds :
          /\ NumTimers(timers', g, {"reveal"}) > NumTimers(timers, g, {"reveal"})
                => AllLiveSubmitted(conns', heap'[g])
          /\ \A i \in 1..Len(timers) :
                (FireReveal(i) /\ timers[i].g = g /\ heap[g].state = "question")
                => AllLiveSubmitted(conns, heap[g])]_vars

(* C4: in state question, at most one of the question deadline timer        *)
(* (game.timer) and the auto timer (game.autoTimer) is pending.              *)
C4_OneTimerInQuestion ==
    \A g \in GameIds :
        heap[g].state = "question"
        => ~(Scheduled(g, "timer") /\ Scheduled(g, "autoTimer"))

(* C5: once the session has left q_result(i), the 5-second auto-advance     *)
(* timer started on entering q_result(i) is no longer pending.               *)
C5_AdvanceTimerCancelled ==
    \A i \in 1..Len(timers) :
        timers[i].kind = "advance"
        => /\ heap[timers[i].g].state = "q_result"
           /\ heap[timers[i].g].currentQ = timers[i].q

(* C6: once the session has left question(i), the deadline timer started    *)
(* for question(i) is no longer pending.                                     *)
C6_DeadlineTimerCancelled ==
    \A i \in 1..Len(timers) :
        timers[i].kind = "deadline"
        => /\ heap[timers[i].g].state = "question"
           /\ heap[timers[i].g].currentQ = timers[i].q

(* C7: once state = final, no message and no timer changes state or         *)
(* currentQ, and no question, question_result or game_over is sent again.    *)
C7_FinalIsFinal ==
    [][\A g \in GameIds :
          heap[g].state = "final"
          => /\ heap'[g].state = "final"
             /\ heap'[g].currentQ = heap[g].currentQ
             /\ {k \in 1..Len(out') :
                   /\ out'[k].g = g
                   /\ out'[k].type \in {"question", "question_result", "game_over"}} = {}]_vars

(* C8, as stated: currentQ = -1 exactly when state = lobby, and state =     *)
(* final implies currentQ >= |questions| - 1.                                *)
C8_IndexMatchesState ==
    \A g \in GameIds :
        /\ (heap[g].currentQ = -1) <=> (heap[g].state = "lobby")
        /\ heap[g].state = "final" => heap[g].currentQ >= Len(heap[g].questions) - 1

\* the step handles an end_game message of the host of game g
EndGameStep(g) ==
    \E c \in ConnIds, pin \in MsgPins : Lookup(pin) = g /\ EndGame(c, pin)

(* C8, amended for end_game, which ends the session from any state: in the  *)
(* lobby currentQ = -1; currentQ = -1 only in lobby or final; in question    *)
(* and q_result 0 <= currentQ <= |questions| - 1; and every step into final  *)
(* other than an end_game message leaves currentQ >= |questions| - 1.        *)
C8_IndexMatchesStateUnlessEnded ==
    /\ [](\A g \in GameIds :
            /\ heap[g].state = "lobby" => heap[g].currentQ = -1
            /\ heap[g].currentQ = -1 => heap[g].state \in {"lobby", "final"}
            /\ heap[g].state \in {"question", "q_result"}
                  => /\ 0 <= heap[g].currentQ
                     /\ heap[g].currentQ <= Len(heap[g].questions) - 1)
    /\ [][\A g \in GameIds :
            (heap[g].state # "final" /\ heap'[g].state = "final" /\ ~EndGameStep(g))
            => heap'[g].currentQ >= Len(heap'[g].questions) - 1]_vars

\* the session has ended on its last question and awaits its removal
C8_Witness ==
    \E g \in GameIds :
        /\ heap[g].state = "final"
        /\ heap[g].currentQ = Len(heap[g].questions) - 1
        /\ FramesOf(g, {"game_over"}) # {}
        /\ NumTimers(timers, g, {"reap"}) = 1

(* C9: every transition a start_game message causes goes from the lobby,    *)
(* with at least one participant, to question index 0.                       *)
C9_StartGameOpensQuestionZero ==
    [][\A c \in ConnIds, pin \in MsgPins :
          LET g == Lookup(pin)
          IN (StartGame(c, pin) /\ g # 0 /\ heap'[g] # heap[g])
             => /\ heap[g].state = "lobby"
                /\ Len(heap[g].players) >= 1
                /\ heap'[g].state = "question"
                /\ heap'[g].currentQ = 0]_vars

\* the game a connection has joined, 0 when it has joined none
JoinedGame(c) ==
    IF conns[c].role = "player" THEN conns[c].playerId[1]
    ELSE IF \E g \in GameIds : heap[g].hostWs = c
    THEN CHOOSE g \in GameIds : heap[g].hostWs = c
    ELSE 0

TimersOf(ts, g) == SelectSeq(ts, LAMBDA t : t.g = g)

\* the step handles a start_game, next_question, end_game or answer of c
MessageFrom(c) ==
    \E pin \in MsgPins :
        \/ StartGame(c, pin)
        \/ NextQuestion(c, pin)
        \/ EndGame(c, pin)
        \/ \E a \in PlayAnswers, final \in BOOLEAN, e \in PlayElapsed :
              Answer(c, pin, a, final, e)

(* C10: a message of a connection that has joined session A changes no      *)
(* other session B (its state, index, players, answers, timers), whatever    *)
(* pin the message carries.                                                  *)
C10_MessagesStayInJoinedSession ==
    [][\A c \in ConnIds :
          (JoinedGame(c) # 0 /\ MessageFrom(c))
          => \A g \in GameIds :
                g # JoinedGame(c)
                => /\ heap'[g] = heap[g]
                   /\ TimersOf(timers', g) = TimersOf(timers, g)]_vars

(* C11: creating a game never replaces or removes a game that is            *)
(* registered in the directory: the pin a creation registers is free.        *)
C11_CreateKeepsRegisteredGames ==
    [][\A pin \in Pins, quiz \in ServerQuizzes :
          Create(pin, quiz)
          => /\ games[pin] = 0
             /\ \A p \in Pins : games[p] # 0 => games'[p] = games[p]]_vars

\* the frames of the given types that the step sends to c for game g
SentTo(o, g, c, types) ==
    {k \in 1..Len(o) : o[k].g = g /\ o[k].to = c /\ o[k].type \in types}

\* the step runs the callback of a timer of g that calls revealAnswer
RevealCallback(g) ==
    \E k \in 1..Len(timers) :
        timers[k].g = g /\ (FireDeadline(k) \/ FireReveal(k))

(* C12: the results of a question index are sent at most once, with at most *)
(* one question_result for each recipient, whatever timers, disconnects and  *)
(* messages occur; and revealAnswer called while state is not question       *)
(* sends nothing and leaves the game as it is.                               *)
C12_RevealIsIdempotent ==
    /\ [](\A g \in GameIds : \A i \in DOMAIN heap[g].revealed :
            heap[g].revealed[i] <= 1)
    /\ [][\A g \in GameIds :
            /\ \A c \in ConnIds : Cardinality(SentTo(out', g, c, {"question_result"})) <= 1
            /\ (\E c \in ConnIds : SentTo(out', g, c, {"question_result"}) # {})
                  => /\ heap[g].state = "question"
                     /\ heap'[g].state = "q_result"
                     /\ heap'[g].currentQ = heap[g].currentQ
                     /\ \A k \in 1..Len(out') :
                           (out'[k].g = g /\ out'[k].type = "question_result")
                           => out'[k].index = heap[g].currentQ
                     /\ Get(heap'[g].revealed, heap[g].currentQ, 0)
                           = Get(heap[g].revealed, heap[g].currentQ, 0) + 1
            /\ (RevealCallback(g) /\ heap[g].state # "question")
                  => /\ out' = <<>>
                     /\ heap'[g] = heap[g]]_vars

\* the results of the second question have just gone to the host and to both
\* players, after the first question was revealed too
C12_Witness ==
    \E g \in GameIds :
        /\ heap[g].state = "q_result"
        /\ heap[g].currentQ = 1
        /\ heap[g].revealed = (0 :> 1) @@ (1 :> 1)
        /\ \A c \in ConnIds : SentTo(out, g, c, {"question_result"}) # {}

(* C13: whenever the results of question index i have been sent, the        *)
(* question of index i has been sent before, exactly once; each recipient    *)
(* gets the question of an index at most once.                               *)
C13_ResultFollowsOneQuestion ==
    /\ [](\A g \in GameIds : \A i \in DOMAIN heap[g].revealed :
            heap[g].revealed[i] >= 1 => Get(heap[g].asked, i, 0) = 1)
    /\ [][\A g \in GameIds :
            /\ \A c \in ConnIds : Cardinality(SentTo(out', g, c, {"question"})) <= 1
            /\ \A k \in 1..Len(out') :
                  (out'[k].g = g /\ out'[k].type = "question")
                  => /\ out'[k].index = heap'[g].currentQ
                     /\ Get(heap'[g].asked, out'[k].index, 0)
                           = Get(heap[g].asked, out'[k].index, 0) + 1
                     /\ Get(heap[g].revealed, out'[k].index, 0) = 0
            /\ \A k \in 1..Len(out') :
                  (out'[k].g = g /\ out'[k].type = "question_result")
                  => Get(heap[g].asked, out'[k].index, 0) = 1]_vars

\* the results of the first question have just been sent
C13_Witness ==
    \E g \in GameIds :
        /\ heap[g].state = "q_result"
        /\ heap[g].currentQ = 0
        /\ heap[g].asked = (0 :> 1)
        /\ heap[g].revealed = (0 :> 1)
        /\ \E c \in ConnIds : SentTo(out, g, c, {"question_result"}) # {}

\* a timer of the given kinds, started for question i of game g, is pending
Pending(ts, g, kinds, i) ==
    \E k \in 1..Len(ts) : ts[k].g = g /\ ts[k].kind \in kinds /\ ts[k].q = i

InQuestion(G, i) == G.state = "question" /\ G.currentQ = i

NumSubmitted(G) == Cardinality({id \in DOMAIN G.answers : G.answers[id].submitted})

\* the step scores an answer of game g, or closes the connection of one of
\* its players, and leaves as many submitted answers as live players
CountReached(g) ==
    /\ heap[g].state = "question"
    /\ InQuestion(heap'[g], heap[g].currentQ)
    /\ \/ \E id \in DOMAIN heap'[g].acks :
             Get(heap'[g].acks, id, 0) > Get(heap[g].acks, id, 0)
       \/ \E c \in ConnIds :
             /\ conns[c].status = "open" /\ conns'[c].status = "closed"
             /\ conns[c].role = "player"
             /\ Lookup(conns[c].gamePin) = g
    /\ activePlayers(conns', heap'[g]) # {}
    /\ NumSubmitted(heap'[g]) >= Cardinality(activePlayers(conns', heap'[g]))

RevealStarted(g) ==
    NumTimers(timers', g, {"reveal"}) > NumTimers(timers, g, {"reveal"})

C15_TimersReachFinal ==
    \A g \in 1..MaxGames :
        (g <= Len(heap) /\ heap[g].state \in {"question", "q_result"})
        ~> (g <= Len(heap) /\ heap[g].state = "final")

\* the game has ended after every connection had closed during its first
\* question
C15_Witness ==
    \E g \in GameIds :
        /\ heap[g].state = "final"
        /\ heap[g].currentQ = Len(heap[g].questions) - 1
        /\ heap[g].revealed = (0 :> 1) @@ (1 :> 1)
        /\ heap[g].answers = << >>
        /\ \A c \in ConnIds : conns[c].status = "closed"
        /\ out = <<>>

----------------------------------------------------------------------------
(* C16: every session that enters final is removed from the directory 10    *)
(* minutes later, and nothing cancels or postpones the removal.  A session   *)
(* that enters final has no removal pending from before and gets a timer of  *)
(* 10 minutes, the newest of all; a pending removal timer goes away only by  *)
(* firing; and when it fires the pin no longer resolves to the session.      *)

\* the step runs the callback of a removal timer of game g
ReapStep(g) ==
    \E i \in 1..MaxTimers : i <= Len(timers) /\ timers[i].g = g /\ FireReap(i)

\* game g goes from another state to final in the step
EntersFinal(g) == heap[g].state # "final" /\ heap'[g].state = "final"

C16_ReapedTenMinutesAfterFinal ==
    [][\A g \in GameIds :
          /\ EntersFinal(g)
                => /\ NumTimers(timers, g, {"reap"}) = 0
                   /\ timers' # <<>>
                   /\ timers'[Len(timers')].g = g
                   /\ timers'[Len(timers')].kind = "reap"
                   /\ timers'[Len(timers')].dur = REAP_DELAY
          /\ NumTimers(timers', g, {"reap"}) < NumTimers(timers, g, {"reap"})
                => ReapStep(g)
          /\ ReapStep(g) => games'[heap[g].pin] # g]_vars


----------------------------------------------------------------------------
(* C17: a next_question message of a host is honoured only in q_result.  In *)
(* lobby, question and final it changes nothing of the games, the timers,    *)
(* the directory and the connections, and sends nothing; in q_result(i)      *)
(* with i not the last index it puts the session in question(i + 1) with     *)
(* an empty answers map, within the handling of the message.                 *)

C17_NextQuestionOnlyInResult ==
    [][\A c \in ConnIds, pin \in MsgPins :
          (/\ conns[c].role = "host"
           /\ ~Dropped(pin)
           /\ Lookup(pin) # 0
           /\ NextQuestion(c, pin))
          => LET g == Lookup(pin)
                 i == heap[g].currentQ
             IN /\ heap[g].state # "q_result"
                      => /\ out' = <<>>
                         /\ UNCHANGED <<games, heap, conns, timers>>
                /\ (heap[g].state = "q_result" /\ i < Len(heap[g].questions) - 1)
                      => /\ heap'[g].state = "question"
                         /\ heap'[g].currentQ = i + 1
                         /\ heap'[g].answers = << >>]_vars

\* the host has cut the 5-second wait short: the second question is open
\* after the results of the first, while a 1-second timer of the first, which
\* runs before the 5-second timer of its results, is still pending
C17_Witness ==
    \E g \in GameIds :
        /\ heap[g].state = "question"
        /\ heap[g].currentQ = 1
        /\ heap[g].answers = << >>
        /\ heap[g].asked = (0 :> 1) @@ (1 :> 1)
        /\ heap[g].revealed = (0 :> 1)
        /\ \E k \in FramesOf(g, {"question"}) : out[k].index = 1
        /\ \E j \in 1..Len(timers) :
              timers[j].g = g /\ timers[j].kind = "reveal" /\ timers[j].q = 0

----------------------------------------------------------------------------
(* C18: a start_game message of a host for a session with an empty list of  *)
(* participants leaves the session as it is (a session in the lobby stays    *)
(* in the lobby with currentQ = -1), starts and clears no timer, and sends   *)
(* nothing but one error frame to the host connection of the session, which  *)
(* gets it whenever it is open, as it is when it is the sender.              *)

C18_StartNeedsPlayers ==
    [][\A c \in ConnIds, pin \in MsgPins :
          (/\ conns[c].role = "host"
           /\ ~Dropped(pin)
           /\ Lookup(pin) # 0
           /\ Len(heap[Lookup(pin)].players) = 0
           /\ StartGame(c, pin))
          => LET g == Lookup(pin)
             IN /\ UNCHANGED <<games, heap, conns, timers>>
                /\ heap[g].state = "lobby"
                      => heap'[g].state = "lobby" /\ heap'[g].currentQ = -1
                /\ NumTimers(timers', g, {"deadline", "reveal", "advance"}) = 0
                /\ \A k \in 1..Len(out') :
                      out'[k].type = "error" /\ out'[k].to = heap[g].hostWs
                /\ Len(out') <= 1
                /\ IsOpen(conns, heap[g].hostWs) => Len(out') = 1
                /\ heap[g].hostWs = c => Len(out') = 1]_vars

\* the host of a session in the lobby that nobody has joined has been sent
\* the error
C18_Witness ==
    \E g \in GameIds, c \in HostConns :
        /\ heap[g].state = "lobby"
        /\ heap[g].currentQ = -1
        /\ heap[g].players = <<>>
        /\ heap[g].hostWs = c
        /\ conns[c].role = "host"
        /\ timers = <<>>
        /\ Len(out) = 1
        /\ out[1].type = "error"
        /\ out[1].to = c
        /\ out[1].g = g

----------------------------------------------------------------------------
(* Reading a scored answer *)

\* p is the fraction n / d rounded to the nearest integer, a half going up
IsRounded(p, n, d) == 2 * d * p <= 2 * n + d /\ 2 * n + d < 2 * d * (p + 1)

\* the players of game g whose answer the step has scored
ScoredNow(g) ==
    {i \in 1..Len(heap[g].players) :
        Get(heap'[g].acks, heap[g].players[i].id, 0)
            > Get(heap[g].acks, heap[g].players[i].id, 0)}

\* the frames of the last handler that acknowledge an answer to connection c
Received(o, c) ==
    {k \in 1..Len(o) : o[k].to = c /\ o[k].type = "answer_received"}

----------------------------------------------------------------------------
(* C19: a single-choice answer scored e seconds after the question began,   *)
(* with time limit T, is reported correct exactly when it is the correct     *)
(* index; it earns 500 + 500 * max(0, (T - e) / T) rounded to the nearest    *)
(* integer when correct and 0 otherwise: 1000 at e = 0, 750 at e = T / 2,    *)
(* 500 for every e >= T.  The points are added to the player's score.        *)

C19_SingleChoicePoints ==
    [][\A g \in GameIds : \A i \in ScoredNow(g) :
          LET q     == heap[g].questions[heap[g].currentQ + 1]
              T     == q.time
              c     == heap[g].players[i].ws
              r     == heap'[g].answers[heap[g].players[i].id]
              e     == r.elapsed
              p     == r.points
              equal == ~r.answer.arr /\ ~q.correct.arr /\ r.answer.v = q.correct.v
          IN q.type = "single"
             => /\ r.submitted
                /\ r.correct = equal
                /\ equal => IsRounded(p, 500 * T + 500 * Max(0, T - e), T)
                /\ ~equal => p = 0
                /\ (equal /\ e = 0) => p = 1000
                /\ (equal /\ 2 * e = T) => p = 750
                /\ (equal /\ e >= T) => p = 500
                /\ heap'[g].players[i].score = heap[g].players[i].score + p
                /\ Cardinality(Received(out', c)) = 1
                /\ \A k \in Received(out', c) :
                      out'[k].points = p /\ out'[k].correct = r.correct]_vars

\* a correct answer one second into a question of six seconds has earned
\* 917 points, 916.67 rounded
C19_Witness ==
    \E g \in GameIds, c \in PlayerConns :
        /\ heap[g].state = "question"
        /\ heap[g].questions[heap[g].currentQ + 1].type = "single"
        /\ heap[g].questions[heap[g].currentQ + 1].time = 6
        /\ \E k \in Received(out, c) : out[k].correct /\ out[k].points = 917
        /\ \E i \in 1..Len(heap[g].players) :
              /\ heap[g].players[i].ws = c
              /\ heap[g].players[i].score = 917
              /\ heap[g].answers[heap[g].players[i].id].elapsed = 1

----------------------------------------------------------------------------
(* C20: a final answer to a multiple-choice question with correct set C,    *)
(* scored e seconds after the question began with the set S selected, is     *)
(* reported correct exactly when S = C and S is not empty, and then earns    *)
(* the points of a correct single-choice answer at e; a non-empty proper     *)
(* subset of C earns |S| / |C| * 300 rounded, whatever e is; an empty S or   *)
(* an S with an index outside C earns 0.                                     *)

C20_MultipleChoicePoints ==
    [][\A g \in GameIds : \A i \in ScoredNow(g) :
          LET q == heap[g].questions[heap[g].currentQ + 1]
              T == q.time
              c == heap[g].players[i].ws
              r == heap'[g].answers[heap[g].players[i].id]
              e == r.elapsed
              p == r.points
              S == r.answer.v
              C == q.correct.v
          IN (q.type = "multiple" /\ r.answer.arr)
             => /\ r.submitted
                /\ r.correct = (S = C /\ S # {})
                /\ (S = C /\ S # {})
                      => IsRounded(p, 500 * T + 500 * Max(0, T - e), T)
                /\ (S # {} /\ S \subseteq C /\ S # C)
                      => IsRounded(p, Cardinality(S) * 300, Cardinality(C))
                /\ (S = {} \/ ~(S \subseteq C)) => p = 0
                /\ heap'[g].players[i].score = heap[g].players[i].score + p
                /\ Cardinality(Received(out', c)) = 1
                /\ \A k \in Received(out', c) :
                      out'[k].points = p /\ out'[k].correct = r.correct]_vars

\* two of seven correct indices selected: 86 points, 85.71 rounded, and the
\* answer is not reported correct
C20_Witness ==
    \E g \in GameIds, c \in PlayerConns :
        /\ heap[g].state = "question"
        /\ heap[g].questions[heap[g].currentQ + 1].type = "multiple"
        /\ heap[g].questions[heap[g].currentQ + 1].correct = Arr(0..6)
        /\ \E k \in Received(out, c) : ~out[k].correct /\ out[k].points = 86
        /\ \E i \in 1..Len(heap[g].players) :
              /\ heap[g].players[i].ws = c
              /\ heap[g].answers[heap[g].players[i].id].answer = Arr({0, 1})
              /\ heap[g].answers[heap[g].players[i].id].submitted

----------------------------------------------------------------------------
(* C21: of two correct answers to the same single-choice question, scored   *)
(* at e1 < e2 <= T seconds after it began, the one at e1 has earned at       *)
(* least the points of the one at e2.                                        *)

\* the submitted records of game g that are correct
CorrectRecords(g) ==
    {id \in DOMAIN heap[g].answers :
        heap[g].answers[id].submitted /\ heap[g].answers[id].correct}

C21_EarlierEarnsNoLess ==
    \A g \in GameIds :
        LET q == heap[g].questions[Max(heap[g].currentQ, 0) + 1]
        IN q.type = "single"
           => \A id1, id2 \in CorrectRecords(g) :
                 LET r1 == heap[g].answers[id1]
                     r2 == heap[g].answers[id2]
                 IN (r1.elapsed < r2.elapsed /\ r2.elapsed <= q.time)
                    => r1.points >= r2.points

\* one player was right one second into the question and the other a second
\* later: 917 and 833 points
C21_Witness ==
    \E g \in GameIds : \E id1, id2 \in CorrectRecords(g) :
        /\ heap[g].questions[heap[g].currentQ + 1].type = "single"
        /\ heap[g].answers[id1].elapsed = 1
        /\ heap[g].answers[id2].elapsed = 2
        /\ heap[g].answers[id1].points = 917
        /\ heap[g].answers[id2].points = 833

----------------------------------------------------------------------------
(* C22: the score of every participant is a non-negative integer in every   *)
(* reachable state, and no step (a message, a close, a timer callback)       *)
(* lowers the score of a participant.                                        *)

C22_ScoresNeverDecrease ==
    /\ [](\A g \in GameIds : \A i \in 1..Len(heap[g].players) :
            heap[g].players[i].score \in Nat)
    /\ [][\A g \in GameIds : \A i \in 1..Len(heap[g].players) :
            /\ i <= Len(heap'[g].players)
            /\ heap'[g].players[i].id = heap[g].players[i].id
            /\ heap'[g].players[i].score >= heap[g].players[i].score]_vars

\* the session has ended after both questions, with a player who earned
\* points on the first, answered the second wrongly, and has disconnected
C22_Witness ==
    \E g \in GameIds : \E i \in 1..Len(heap[g].players) :
        /\ heap[g].state = "final"
        /\ heap[g].revealed = (0 :> 1) @@ (1 :> 1)
        /\ heap[g].players[i].score > 0
        /\ heap[g].players[i].ws = 0
        /\ heap[g].players[i].id \in DOMAIN heap[g].answers
        /\ heap[g].answers[heap[g].players[i].id].submitted
        /\ heap[g].answers[heap[g].players[i].id].points = 0

----------------------------------------------------------------------------
(* C23: in every reachable state no two participants of a session have      *)
(* names that are equal ignoring case; and a player_join whose sanitized     *)
(* name is equal, ignoring case, to the name of a participant of the         *)
(* session in its lobby sends the error to the sender and changes no         *)
(* session and no connection.                                                *)

\* the two names are equal once both are put in lower case
EqualIgnoringCase(a, b) ==
    /\ Len(a) = Len(b)
    /\ \A k \in 1..Len(a) : LowerChar(a[k]) = LowerChar(b[k])

\* game G has a participant with this name, ignoring case
NameTaken(G, name) ==
    \E i \in 1..Len(G.players) : EqualIgnoringCase(G.players[i].name, name)

C23_NamesUniqueIgnoringCase ==
    /\ [](\A g \in GameIds : \A i, j \in 1..Len(heap[g].players) :
            i # j => ~EqualIgnoringCase(heap[g].players[i].name,
                                        heap[g].players[j].name))
    /\ [][\A c \in PlayerConns, pin \in Pins, raw \in LobbyNames :
            (/\ Lookup(pin) # 0
             /\ heap[Lookup(pin)].state = "lobby"
             /\ SanitizeName(raw) # <<>>
             /\ NameTaken(heap[Lookup(pin)], SanitizeName(raw))
             /\ PlayerJoinMessage(c, pin, raw))
            => /\ UNCHANGED <<games, heap, conns, timers>>
               /\ Len(out') = 1
               /\ out'[1].type = "error"
               /\ out'[1].to = c]_vars

\* two participants "a" and "B" are in the lobby, and a third join, with a
\* name taken in another spelling, has been refused
C23_Witness ==
    \E g \in GameIds :
        /\ heap[g].state = "lobby"
        /\ Len(heap[g].players) = 2
        /\ heap[g].players[1].name = <<"a">>
        /\ heap[g].players[2].name = <<"B">>
        /\ Len(out) = 1
        /\ out[1].type = "error"
        /\ out[1].message = "Nom deja pris"

----------------------------------------------------------------------------
(* C24: the list of participants of a session changes only by a join in     *)
(* the lobby, which appends one entry and never makes more than 100, and     *)
(* by a close, which sets the tombstone of an entry.  No step removes an     *)
(* entry or changes the id, the name or the place of one; an entry is added  *)
(* only while the session is in its lobby; a connection of an entry changes  *)
(* only to the tombstone, when that connection closes; a player_join for a   *)
(* session that has left its lobby sends the error to the sender and         *)
(* changes nothing; and a close changes no score.                            *)

\* connection c closes in the step
Closes(c) == conns[c].status = "open" /\ conns'[c].status = "closed"

C24_ParticipantsAppendOnly ==
    /\ [](\A g \in GameIds : Len(heap[g].players) <= 100)
    /\ [][\A g \in GameIds :
            LET old == heap[g].players
                new == heap'[g].players
            IN /\ Len(new) >= Len(old)
               /\ \A i \in 1..Len(old) :
                     /\ new[i].id = old[i].id
                     /\ new[i].name = old[i].name
                     /\ new[i].ws # old[i].ws
                           => new[i].ws = 0 /\ Closes(old[i].ws)
                     /\ (\E c \in ConnIds : Closes(c)) => new[i].score = old[i].score
               /\ Len(new) > Len(old)
                     => /\ Len(new) = Len(old) + 1
                        /\ heap[g].state = "lobby"
                        /\ heap'[g].state = "lobby"
                        /\ \E k \in 1..Len(out') :
                              out'[k].type = "joined" /\ out'[k].to = new[Len(new)].ws]_vars
    /\ [][\A c \in PlayerConns, pin \in Pins, raw \in FullNames :
            (/\ Lookup(pin) # 0
             /\ heap[Lookup(pin)].state # "lobby"
             /\ PlayerJoinMessage(c, pin, raw))
            => /\ UNCHANGED <<games, heap, conns, timers>>
               /\ Len(out') = 1
               /\ out'[1].type = "error"
               /\ out'[1].to = c]_vars

\* the session has 100 participants and its question is open; the last to
\* join has disconnected after earning points, and a join has been refused
\* because the game has started
C24_Witness ==
    \E g \in GameIds :
        /\ heap[g].state = "question"
        /\ Len(heap[g].players) = 100
        /\ heap[g].players[100].ws = 0
        /\ heap[g].players[100].score > 0
        /\ Len(out) = 1
        /\ out[1].type = "error"
        /\ out[1].message = "Partie deja commencee"

----------------------------------------------------------------------------
(* C25: the answer_received for a scored answer to question i goes to the   *)
(* participant who sent it, no question_result for i has been sent when it   *)
(* is sent, and a question_result for i sent by the same step comes after    *)
(* it; this includes the answer that makes the count of submissions reach    *)
(* the number of live players.                                               *)

C25_AckBeforeResult ==
    [][\A g \in GameIds : \A k \in 1..Len(out') :
          (out'[k].g = g /\ out'[k].type = "answer_received")
          => /\ Get(heap[g].revealed, out'[k].index, 0) = 0
             /\ \A m \in 1..Len(out') :
                   (/\ out'[m].g = g
                    /\ out'[m].type = "question_result"
                    /\ out'[m].index = out'[k].index) => m > k
             /\ \E p \in ScoredNow(g) : heap[g].players[p].ws = out'[k].to]_vars

\* the last live player has just answered the first question: the answer is
\* acknowledged, the 1-second timer is pending and no result has been sent
C25_Witness ==
    \E g \in GameIds :
        /\ InQuestion(heap[g], 0)
        /\ \E k \in FramesOf(g, {"answer_received"}) : out[k].index = 0
        /\ FramesOf(g, {"question_result"}) = {}
        /\ Pending(timers, g, {"reveal"}, 0)
        /\ Get(heap[g].revealed, 0, 0) = 0
        /\ NumSubmitted(heap[g]) >= Cardinality(activePlayers(conns, heap[g]))

----------------------------------------------------------------------------
(* C26: the leaderboard of every question_result and game_over has one      *)
(* entry for each participant of the session, connected or not, with the     *)
(* participant's name and score; its scores do not increase down the list;   *)
(* of two participants with the same score the one who joined first comes    *)
(* first; and the entry at place r has rank r.                               *)

\* the places of the leaderboard L that carry this name
PlacesOf(L, name) == {r \in 1..Len(L) : L[r].name = name}

\* the place in the participant list P of the participant with this name
JoinPlace(P, name) == CHOOSE i \in 1..Len(P) : P[i].name = name

\* the leaderboards carried by the result frames of game g in out
LeaderboardsSent(g) ==
    {out[k].leaderboard : k \in FramesOf(g, {"question_result", "game_over"})}

C26_LeaderboardComplete ==
    \A g \in GameIds : \A L \in LeaderboardsSent(g) :
        LET P == heap[g].players
        IN /\ Len(L) = Len(P)
           /\ \A i \in 1..Len(P) :
                 /\ Cardinality(PlacesOf(L, P[i].name)) = 1
                 /\ \A r \in PlacesOf(L, P[i].name) : L[r].score = P[i].score
           /\ \A r \in 1..Len(L) : L[r].rank = r
           /\ \A r \in 1..(Len(L) - 1) :
                 \/ L[r].score > L[r + 1].score
                 \/ /\ L[r].score = L[r + 1].score
                    /\ JoinPlace(P, L[r].name) < JoinPlace(P, L[r + 1].name)

\* results of a session of 100 participants: the last to join has the only
\* points and leads, the 98 who left follow in join order, and the 99th, who
\* is connected and has no points either, is last
C26_Witness ==
    \E g \in GameIds : \E k \in FramesOf(g, {"question_result"}) :
        LET L == out[k].leaderboard
        IN /\ Len(L) = 100
           /\ L[1].name = heap[g].players[100].name
           /\ L[1].score = 1000
           /\ L[2].name = NthName(1)
           /\ L[2].score = 0
           /\ L[99].name = NthName(98)
           /\ L[100].name = heap[g].players[99].name
           /\ L[100].rank = 100
           /\ heap[g].players[99].ws # 0

----------------------------------------------------------------------------
(* C27: a score changes only in the handler of an `answer` message of that   *)
(* participant while the session is in state question; an `answer` handled   *)
(* in lobby, q_result or final changes nothing and sends nothing; the        *)
(* leaderboard of a question_result is the one on display until the session  *)
(* leaves q_result, and a game_over sent by a step that starts in q_result   *)
(* (auto-advance or next_question after the last question) carries exactly   *)
(* that leaderboard.                                                         *)

\* the places of out' that carry a frame of these types for game g
FramesSent(g, types) ==
    {k \in 1..Len(out') : out'[k].g = g /\ out'[k].type \in types}

\* the participants of game g whose score differs after the step
ScoreChanged(g) ==
    {i \in 1..Len(heap[g].players) :
        heap'[g].players[i].score # heap[g].players[i].score}

C27_ScoresChangeOnlyInQuestion ==
    [][/\ \A g \in GameIds :
             /\ ScoreChanged(g) # {}
                => /\ heap[g].state = "question"
                   /\ ScoreChanged(g) \subseteq ScoredNow(g)
             /\ \A k \in FramesSent(g, {"question_result"}) :
                   out'[k].leaderboard = heap'[g].board
             /\ heap[g].state = "q_result"
                => \A k \in FramesSent(g, {"game_over"}) :
                      out'[k].leaderboard = heap[g].board
       /\ \A pin \in MsgPins :
             (Lookup(pin) # 0 /\ heap[Lookup(pin)].state # "question")
             => \A c \in ConnIds, a \in PlayAnswers, final \in BOOLEAN, e \in PlayElapsed :
                   Answer(c, pin, a, final, e)
                   => UNCHANGED <<games, heap, timers>> /\ out' = <<>>]_vars

\* the session is over after next_question in the result of its last
\* question; the second participant to join leads with points, and everyone
\* received that leaderboard
C27_Witness ==
    \E g \in GameIds :
        /\ heap[g].state = "final"
        /\ heap[g].currentQ = Len(heap[g].questions)
        /\ Get(heap[g].revealed, Len(heap[g].questions) - 1, 0) = 1
        /\ Len(heap[g].players) = 2
        /\ heap[g].players[2].score > heap[g].players[1].score
        /\ \E k \in FramesOf(g, {"game_over"}) :
              /\ out[k].leaderboard[1].name = heap[g].players[2].name
              /\ out[k].leaderboard[1].score = heap[g].players[2].score

----------------------------------------------------------------------------
(* C28, as stated: whenever a timer callback reveals the open question of a  *)
(* session, that timer was scheduled while this question was the current     *)
(* one: its deadline timer, or a 1-second timer started by an answer or a    *)
(* disconnect during this question. A timer left over from an earlier        *)
(* question never reveals a later one.                                       *)

\* timer k calls revealAnswer in this step while its session has a question open
Reveals(k) ==
    /\ k \in 1..Len(timers)
    /\ heap[timers[k].g].state = "question"
    /\ (FireDeadline(k) \/ FireReveal(k))

C28_RevealOnlyByOwnTimer ==
    [][\A k \in 1..MaxTimers :
          Reveals(k) => timers[k].q = heap[timers[k].g].currentQ]_vars

----------------------------------------------------------------------------
(* C29, as stated: a code leaves the session directory only in a step of the *)
(* removal timer that was started by the session registered under that code, *)
(* and only while that session is in state final: no session in lobby,       *)
(* question or q_result is deleted, and the removal timer of one session     *)
(* never deletes another session registered later under the same code.       *)

\* the step deletes the entry of this code from the directory
Deleted(pin) == games[pin] # 0 /\ games'[pin] = 0

C29_ReapOnlyOwnFinalSession ==
    [][\A pin \in Pins :
          Deleted(pin) => /\ ReapStep(games[pin])
                          /\ heap[games[pin]].state = "final"]_vars

=============================================================================
